---- MODULE Spec2Model ----
(***************************************************************************)
(* Model of the two analysis notebooks of cscar-basic-regression:          *)
(*   - the survival notebook (src/unnamed/part_000): the product-limit     *)
(*     estimator it calls and documents, its own hazard() helper, the      *)
(*     risk sets of the proportional-hazards fits, and the top-to-bottom   *)
(*     execution of its cells;                                             *)
(*   - the multilevel notebook (src/rlms_multilevel.ipynb): its cells.     *)
(* Survival probabilities are exact rationals <<num, den>>; the notebook   *)
(* computes them in floating point.                                        *)
(***************************************************************************)
EXTENDS Integers, Sequences, FiniteSets, TLC

VARIABLES
    args,      \* arguments of the SurvfuncRight(time, status, entry=...) call
    ret,       \* what that call produced: a survival function or an error
    s,         \* the notebook's global name s
    sf1,       \* a second survival function object (sf1 of the notebook's example)
    hzArg,     \* the name passed to the hazard(...) call
    hz,        \* what that call returned
    strata,    \* the strata=... array of a PHReg fit (none: no stratification)
    riskSets,  \* per record, the risk set the fit uses for its event
    nb,        \* the notebook being run top to bottom
    pc,        \* the next code cell of that notebook
    fs,        \* the data files on disk
    opened,    \* the files read so far
    written,   \* the files written so far
    df,        \* the notebook's global name df: the rows of a data frame
    dx,        \* the notebook's global name dx
    calls,     \* the arguments passed to SurvfuncRight and PHReg so far
    env,       \* the global names bound by the cells completed so far
    year_mean, \* the multilevel notebook's global name year_mean
    age_mean,  \* the multilevel notebook's global name age_mean
    idx_use,   \* the multilevel notebook's global name idx_use
    fits       \* the OLS and MixedLM fits made so far, with their data= frames

rlmsVars == <<year_mean, age_mean, idx_use, fits>>
nbVars == <<nb, pc, fs, opened, written, df, dx, calls, env, year_mean, age_mean,
            idx_use, fits>>
vars == <<args, ret, s, sf1, hzArg, hz, strata, riskSets,
          nb, pc, fs, opened, written, df, dx, calls, env, year_mean, age_mean,
          idx_use, fits>>

\* ------------------------------------------------------------------ bounds
MaxN == 3          \* records per call
MaxT == 3          \* largest recorded time
MaxEntry == 1      \* largest entry time
MaxPHN == 2        \* records per proportional-hazards fit
MaxStrata == 2     \* number of strata
MaxRows == 2       \* rows of a data file
PredictRows == 1   \* rows predicted at (the notebook uses 100)
MaxSubjects == 3   \* subjects, and rows, of a file of several subjects
SampleSize == 2    \* subjects drawn by the subsampling (the notebook draws 2000)

\* ------------------------------------------------------------- rationals
\* entry=None: no entry-time array is passed
NoEntry == <<>>

RECURSIVE GCD(_, _)
GCD(a, b) == IF b = 0 THEN a ELSE GCD(b, a % b)

\* n/d in lowest terms, d > 0; a zero denominator is the float nan
Rat(n, d) ==
    IF d = 0 THEN <<0, 0>>
    ELSE LET g == GCD(IF n < 0 THEN -n ELSE n, d) IN <<n \div g, d \div g>>

RatOne == <<1, 1>>
RatMul(p, q) == Rat(p[1] * q[1], p[2] * q[2])
RatPos(p) == p[2] > 0 /\ p[1] > 0

\* ------------------------------------------------------- the estimator
\* The index set of a call's records.
Idx(a) == DOMAIN a.time

\* Entry time of record i; without entry times every subject is followed
\* from the time origin.
EntryOf(a, i) == IF a.entry = NoEntry THEN 0 ELSE a.entry[i]

\* Record i is in the risk set at time t.
AtRiskNoEntryCheck(a, i, t) == t <= a.time[i]
AtRisk(a, i, t) == EntryOf(a, i) < t /\ t <= a.time[i]

\* Record i is an event at time t.
IsEventIgnoringStatus(a, i, t) == a.time[i] = t
IsEvent(a, i, t) == a.time[i] = t /\ a.status[i] = 1

\* d(t) and R(t), counted by one pass over the records.
RECURSIVE CountEvents(_, _, _)
CountEvents(a, t, i) ==
    IF i > Len(a.time) THEN 0
    ELSE (IF IsEvent(a, i, t) THEN 1 ELSE 0) + CountEvents(a, t, i + 1)

RECURSIVE CountRisk(_, _, _)
CountRisk(a, t, i) ==
    IF i > Len(a.time) THEN 0
    ELSE (IF AtRisk(a, i, t) THEN 1 ELSE 0) + CountRisk(a, t, i + 1)

n_events(a, t) == CountEvents(a, t, 1)
n_risk(a, t) == CountRisk(a, t, 1)

\* The distinct recorded times t_1 < t_2 < ..., as a sorted sequence.
RECURSIVE SortedSeq(_)
SortedSeq(S) ==
    IF S = {} THEN <<>>
    ELSE LET m == CHOOSE x \in S : \A y \in S : x <= y
         IN <<m>> \o SortedSeq(S \ {m})

DistinctTimes(a) == SortedSeq({a.time[i] : i \in Idx(a)})

\* 1 - d(t)/R(t)
FactorOffByOne(a, t) == Rat(n_risk(a, t) - n_events(a, t), n_risk(a, t) + 1)
Factor(a, t) == Rat(n_risk(a, t) - n_events(a, t), n_risk(a, t))

\* The running product (1 - d(t_1)/R(t_1)) ... (1 - d(t_k)/R(t_k)).
RECURSIVE ProductLimitNoAccumulate(_, _, _, _)
ProductLimitNoAccumulate(a, tms, k, acc) ==
    IF k > Len(tms) THEN <<>>
    ELSE <<Factor(a, tms[k])>> \o ProductLimitNoAccumulate(a, tms, k + 1, acc)

RECURSIVE ProductLimit(_, _, _, _)
ProductLimit(a, tms, k, acc) ==
    IF k > Len(tms) THEN <<>>
    ELSE LET p == RatMul(acc, Factor(a, tms[k]))
         IN <<p>> \o ProductLimit(a, tms, k + 1, p)

\* A record whose recorded time equals its entry time: a 0 survival time.
ZeroDuration(a) == \E i \in Idx(a) : a.entry # NoEntry /\ a.time[i] = a.entry[i]

\* A survival function object: its attributes surv_times and surv_prob.
NoSurvfunc == [surv_times |-> <<>>, surv_prob |-> <<>>]

Estimate(a) ==
    [outcome |-> "ok",
     sf |-> [surv_times |-> DistinctTimes(a),
             surv_prob |-> ProductLimit(a, DistinctTimes(a), 1, RatOne)]]

ErrorOutcome == [outcome |-> "error", sf |-> NoSurvfunc]

SurvfuncRightUnchecked(a) == Estimate(a)
SurvfuncRight(a) == IF ZeroDuration(a) THEN ErrorOutcome ELSE Estimate(a)

\* ------------------------------------------------------------ inputs
\* (time, status) arrays of equal length 1..MaxN, times strictly positive,
\* and either no entry times or entry times not after the recorded time.
Lens == 1..MaxN
Times == 1..MaxT
Entries == 0..MaxEntry

\* entry=None, or one entry time per record
EntryArrays(n) == {NoEntry} \cup [1..n -> Entries]

ValidInput(a) ==
    /\ Len(a.status) = Len(a.time)
    /\ a.entry # NoEntry => /\ Len(a.entry) = Len(a.time)
                            /\ \A i \in Idx(a) : a.entry[i] <= a.time[i]

\* ------------------------------------------- one call of the estimator
NoArgs == [time |-> <<>>, status |-> <<>>, entry |-> NoEntry]
NoStrata == <<>>
NoCall == [outcome |-> "none", sf |-> NoSurvfunc]
UnboundName == [bound |-> FALSE, sf |-> NoSurvfunc]
NoHazard == [outcome |-> "none", times |-> <<>>, values |-> <<>>]

\* No notebook is running.
NoFiles == [schich |-> <<>>, xlsx |-> <<>>, nhanes |-> <<>>, rlms |-> <<>>, dta |-> <<>>]

NotebookIdle ==
    /\ nb = "none"
    /\ pc = "none"
    /\ fs = NoFiles
    /\ opened = {}
    /\ written = {}
    /\ df = <<>>
    /\ dx = <<>>
    /\ calls = {}
    /\ env = {}
    /\ year_mean = <<>>
    /\ age_mean = <<>>
    /\ idx_use = <<>>
    /\ fits = <<>>

InitKM ==
    /\ NotebookIdle
    /\ \E n \in Lens :
          \E t \in [1..n -> Times], st \in [1..n -> {0, 1}], e \in EntryArrays(n) :
              /\ args = [time |-> t, status |-> st, entry |-> e]
              /\ ValidInput(args)
    /\ ret = NoCall
    /\ s = UnboundName
    /\ sf1 = UnboundName
    /\ hzArg = "none"
    /\ hz = NoHazard
    /\ strata = NoStrata
    /\ riskSets = <<>>

\* The call returns once: its value, or the error it raises.
CallSurvfuncRight ==
    /\ ret.outcome = "none"
    /\ ret' = SurvfuncRight(args)
    /\ UNCHANGED <<args, s, sf1, hzArg, hz, strata, riskSets>>
    /\ UNCHANGED nbVars

NextKM == CallSurvfuncRight

SpecKM == InitKM /\ [][NextKM]_vars

\* ------------------------------------------------------ hazard(sf)
\* np.log of a probability and the float arithmetic on it are kept as terms.
Log(p) == <<"log", p[1], p[2]>>

\* np.diff: out[i] = a[i+1] - a[i]
DiffLog(lpr) == [i \in 1..(Len(lpr) - 1) |-> <<"sub", lpr[i + 1], lpr[i]>>]
DiffTimes(tm) == [i \in 1..(Len(tm) - 1) |-> tm[i + 1] - tm[i]]

\* a[ii] for a boolean mask ii: the elements of a at the indices in keep
RECURSIVE Mask(_, _, _)
Mask(a, keep, i) ==
    IF i > Len(a) THEN <<>>
    ELSE (IF i \in keep THEN <<a[i]>> ELSE <<>>) \o Mask(a, keep, i + 1)

\* The body of hazard, run on the survival function object obj.
HazardBody(obj) ==
    LET tm0 == obj.surv_times
        pr0 == obj.surv_prob
        ii == {i \in DOMAIN pr0 : RatPos(pr0[i])}
        tm == Mask(tm0, ii, 1)
        pr == Mask(pr0, ii, 1)
        lpr == [i \in DOMAIN pr |-> Log(pr[i])]
    IN [outcome |-> "ok",
        times |-> SubSeq(tm, 1, Len(tm) - 1),
        values |-> [i \in 1..(Len(tm) - 1) |->
                      <<"neg", <<"div", DiffLog(lpr)[i], DiffTimes(tm)[i]>>>>]]

NameError == [outcome |-> "NameError", times |-> <<>>, values |-> <<>>]

\* def hazard(sf): the body reads the global name s, not its parameter sf.
\* gs is the binding of the global s when the body runs.
hazardIn(gs, sf) == IF gs.bound THEN HazardBody(gs.sf) ELSE NameError
hazard(sf) == hazardIn(s, sf)

\* The object a name is bound to.
Lookup(nm) == IF nm = "s" THEN s ELSE sf1

\* The survival functions the estimator returns for inputs without entry
\* times, bound to the names s and sf1 before hazard is called.
InitHazard ==
    /\ \E n \in Lens :
          \E t \in [1..n -> Times], st \in [1..n -> {0, 1}] :
              sf1 = [bound |-> TRUE,
                     sf |-> SurvfuncRight([time |-> t, status |-> st,
                                           entry |-> NoEntry]).sf]
    /\ \E n \in Lens :
          \E t \in [1..n -> Times], st \in [1..n -> {0, 1}] :
              s = [bound |-> TRUE,
                   sf |-> SurvfuncRight([time |-> t, status |-> st,
                                         entry |-> NoEntry]).sf]
    /\ args = NoArgs
    /\ ret = NoCall
    /\ hzArg = "none"
    /\ hz = NoHazard
    /\ strata = NoStrata
    /\ riskSets = <<>>
    /\ NotebookIdle

\* tm, hz = hazard(nm)
CallHazard(nm) ==
    /\ hzArg = "none"
    /\ Lookup(nm).bound
    /\ hzArg' = nm
    /\ hz' = hazard(Lookup(nm).sf)
    /\ UNCHANGED <<args, ret, s, sf1, strata, riskSets>>
    /\ UNCHANGED nbVars

NextHazard == \E nm \in {"s", "sf1"} : CallHazard(nm)

SpecHazard == InitHazard /\ [][NextHazard]_vars

\* ------------------------------------- proportional-hazards risk sets
\* Records i and j are compared: without strata all records are one group.
SameStratumIgnored(st, i, j) == TRUE
SameStratum(st, i, j) == st = NoStrata \/ st[i] = st[j]

\* The risk set for the event of record i: the subjects of its stratum at
\* risk at its recorded time.
RiskSetOfEvent(a, st, i) ==
    {j \in Idx(a) : SameStratum(st, i, j) /\ AtRisk(a, j, a.time[i])}

PHRegRiskSets(a, st) ==
    [i \in Idx(a) |-> IF a.status[i] = 1 THEN RiskSetOfEvent(a, st, i) ELSE {}]

StrataArrays(n) == {NoStrata} \cup [1..n -> 1..MaxStrata]

\* The data of a fit: the zero-duration records are removed before it.
InitPH ==
    /\ \E n \in 1..MaxPHN :
          \E t \in [1..n -> Times], st \in [1..n -> {0, 1}], e \in EntryArrays(n),
             g \in StrataArrays(n) :
              /\ args = [time |-> t, status |-> st, entry |-> e]
              /\ ValidInput(args)
              /\ ~ZeroDuration(args)
              /\ strata = g
    /\ ret = NoCall
    /\ s = UnboundName
    /\ sf1 = UnboundName
    /\ hzArg = "none"
    /\ hz = NoHazard
    /\ riskSets = <<>>
    /\ NotebookIdle

\* sm.PHReg.from_formula(fml, status=..., entry=..., strata=..., data=df)
FitPHReg ==
    /\ riskSets = <<>>
    /\ riskSets' = PHRegRiskSets(args, strata)
    /\ UNCHANGED <<args, ret, s, sf1, hzArg, hz, strata>>
    /\ UNCHANGED nbVars

NextPH == FitPHReg

SpecPH == InitPH /\ [][NextPH]_vars

\* ---------------------------------------------- data frames and cells
\* A cell of a data frame is <<v>>; a missing value (NaN) is <<>>.
NaN == <<>>
Num(v) == <<v>>
Val(x) == x[1]

\* Arithmetic and comparison propagate NaN as pandas does: an operation on
\* NaN is NaN, a comparison with NaN is False.
Sub(x, y) == IF x = NaN \/ y = NaN THEN NaN ELSE Num(Val(x) - Val(y))
Add(x, y) == IF x = NaN \/ y = NaN THEN NaN ELSE Num(Val(x) + Val(y))
Scale(k, x) == IF x = NaN THEN NaN ELSE Num(k * Val(x))
Ge(x, y) == x # NaN /\ y # NaN /\ Val(x) >= Val(y)
Gt(x, y) == x # NaN /\ y # NaN /\ Val(x) > Val(y)
Lt(x, y) == x # NaN /\ y # NaN /\ Val(x) < Val(y)
Eq(x, v) == x # NaN /\ Val(x) = v

\* df[c] = vals, a value per row
WithCol(r, c, v) == [k \in DOMAIN r \cup {c} |-> IF k = c THEN v ELSE r[k]]
Assign(rows, c, vals) == [i \in DOMAIN rows |-> WithCol(rows[i], c, vals[i])]

\* df.loc[mask, :], the mask being the set of row indices it keeps
Loc(rows, mask) == Mask(rows, mask, 1)

\* df.dropna()
HasNaN(r) == \E c \in DOMAIN r : r[c] = NaN
DropNaHowAll(rows) == Loc(rows, {i \in DOMAIN rows : \E c \in DOMAIN rows[i] : rows[i][c] # NaN})
DropNa(rows) == Loc(rows, {i \in DOMAIN rows : ~HasNaN(rows[i])})

\* A column as the array handed to an estimator.
Column(rows, c) == [i \in DOMAIN rows |-> Val(rows[i][c])]

\* status not passed (PHReg without status=)
NoStatus == <<>>

\* The status a proportional-hazards fit uses for the records of call c:
\* without status= the fit has no censoring, every record is an event.
PHRegStatus(c) == IF c.status = NoStatus THEN [i \in DOMAIN c.time |-> 1] ELSE c.status

\* ------------------------------------------------------- data files
BYears == {Num(499), Num(500)}
DYears == {NaN, Num(499), Num(500), Num(501)}
Genders == {<<"Female">>, <<"Male">>, <<"Other">>}

Ages == {Num(1), Num(2)}
Permths == {NaN, Num(0), Num(1)}
Sexes == {Num(1), Num(2)}
Mortstats == {Num(0), Num(1)}
Urbanrurals == {Num(1), Num(2)}
PovertySentinel == 888888
Poverties == {Num(1), Num(PovertySentinel)}

SchichRows(n) ==
    {[i \in 1..n |-> [BYear |-> b[i], DYear |-> d[i], Gender |-> g[i]]] :
        b \in [1..n -> BYears], d \in [1..n -> DYears], g \in [1..n -> Genders]}

\* A merged NHANES record: its follow-up fields vary, or its covariates do.
NhanesVariants ==
    {[age |-> ag, permth_int |-> pm, sex |-> Num(2), mortstat |-> ms,
      poverty |-> Num(1), urbanrural |-> Num(1)] :
        ag \in Ages, pm \in Permths, ms \in Mortstats}
    \cup {[age |-> Num(1), permth_int |-> Num(1), sex |-> sx, mortstat |-> Num(1),
           poverty |-> pv, urbanrural |-> ur] :
              sx \in Sexes, pv \in Poverties, ur \in Urbanrurals}

NhanesRows(n) == [1..n -> NhanesVariants]

\* A csv field that did not parse as a number: its characters.
Text(chars) == <<"text", chars>>
IsText(x) == x # NaN /\ Len(x) = 2

\* The columns written to rlms.csv.gz
RlmsCols ==
    {"idind", "year", "psu", "marst", "h5", "h6", "h7_2", "m1", "m2", "o38a", "j57", "j59"}

\* A complete response of subject id.
RlmsRow(id) ==
    [idind |-> Num(id), year |-> Num(2000), psu |-> Num(1), marst |-> Num(2),
     h5 |-> <<"female">>, h6 |-> Num(1970), h7_2 |-> Num(6), m1 |-> Num(70),
     m2 |-> Num(170), o38a |-> Num(8), j57 |-> Num(1), j59 |-> Num(1)]

\* Responses of subject 1 with missing, textual and differing fields.
RlmsVariants ==
    {[RlmsRow(1) EXCEPT !.year = y, !.h6 = b] :
        y \in {NaN, Num(2000), Text(<<"2", "0", "0", "2">>)}, b \in {NaN, Num(1970)}}
    \cup {[RlmsRow(1) EXCEPT !.m1 = w] : w \in {NaN, Text(<<"7", "0">>), Text(<<"7", "x">>)}}
    \cup {[RlmsRow(1) EXCEPT !.m2 = h] : h \in {NaN, Text(<<"x">>)}}
    \cup {[RlmsRow(1) EXCEPT !.idind = id] : id \in {Num(2), Text(<<"2">>), Text(<<"x">>)}}
    \cup {[RlmsRow(1) EXCEPT !.h5 = g] : g \in {NaN, <<"male">>}}
    \cup {[RlmsRow(1) EXCEPT !.psu = NaN],
          [RlmsRow(1) EXCEPT !.o38a = Text(<<"7", "x">>)],
          [RlmsRow(1) EXCEPT !.j57 = Text(<<"7", "0">>)],
          [RlmsRow(1) EXCEPT !.j59 = NaN]}

RlmsRows(n) == [1..n -> RlmsVariants]

\* Responses of up to MaxSubjects subjects, complete but for the body
\* weight of the first, which may be missing.
SubjectRows(n) ==
    {[i \in 1..n |-> IF i = 1 THEN [RlmsRow(id[i]) EXCEPT !.m1 = w] ELSE RlmsRow(id[i])] :
        id \in [1..n -> 1..MaxSubjects], w \in {NaN, Num(70)}}

OneSchichRow == <<[BYear |-> Num(499), DYear |-> Num(501), Gender |-> <<"Female">>]>>
OneNhanesRow ==
    <<[age |-> Num(1), permth_int |-> Num(1), sex |-> Num(2),
       mortstat |-> Num(1), poverty |-> Num(1), urbanrural |-> Num(1)]>>
\* A notable-people file long enough for the prediction cell.
SchichSample == [i \in 1..PredictRows |-> OneSchichRow[1]]
\* The Excel sheet and the Stata file hold columns the csv files drop.
XlsxSheet ==
    <<[PrsLabel |-> <<"a">>, BYear |-> Num(499), DYear |-> Num(500),
       Gender |-> <<"Male">>, BLocLabel |-> <<"x">>]>>
StataFile == <<[k \in RlmsCols \cup {"a3"} |-> IF k = "a3" THEN Num(0) ELSE RlmsRow(1)[k]]>>

\* df[[cols]]
Project(rows, cols) == [i \in DOMAIN rows |-> [c \in cols |-> rows[i][c]]]

\* ----------------------------------------------- the notebooks' cells
\* The estimators are not running on their own.
EstimatorIdle ==
    /\ args = NoArgs
    /\ ret = NoCall
    /\ sf1 = UnboundName
    /\ strata = NoStrata
    /\ riskSets = <<>>

Init ==
    /\ EstimatorIdle
    /\ \/ /\ nb = "survival"
          /\ pc = "S_Import"
          /\ \E n \in 0..MaxRows :
                \/ \E f \in SchichRows(n) :
                      fs = [schich |-> f, xlsx |-> XlsxSheet, nhanes |-> OneNhanesRow,
                            rlms |-> <<>>, dta |-> StataFile]
                \/ \E f \in NhanesRows(n) :
                      fs = [schich |-> SchichSample, xlsx |-> XlsxSheet, nhanes |-> f,
                            rlms |-> <<>>, dta |-> StataFile]
       \/ /\ nb = "rlms"
          /\ pc = "R_Convert"
          /\ \/ \E n \in 0..MaxRows : \E f \in RlmsRows(n) :
                   fs = [schich |-> <<>>, xlsx |-> XlsxSheet, nhanes |-> <<>>,
                         rlms |-> f, dta |-> StataFile]
             \/ \E n \in 1..MaxSubjects : \E f \in SubjectRows(n) :
                   fs = [schich |-> <<>>, xlsx |-> XlsxSheet, nhanes |-> <<>>,
                         rlms |-> f, dta |-> StataFile]
    /\ opened = {}
    /\ written = {}
    /\ df = <<>>
    /\ dx = <<>>
    /\ s = UnboundName
    /\ hzArg = "none"
    /\ hz = NoHazard
    /\ calls = {}
    /\ env = {}
    /\ year_mean = <<>>
    /\ age_mean = <<>>
    /\ idx_use = <<>>
    /\ fits = <<>>

estVars == <<args, ret, sf1, strata, riskSets>>

\* ------------------------------------------------- names read and bound
\* For each code cell, in document order: the global names the cell reads
\* before binding them itself, and the names it binds when it completes.
\* The body of an `if False:` cell reads and binds nothing. hazard() reads
\* the global s when it is called, after the loop body has bound it.
SurvivalReads ==
    [S_Import |-> {},
     S_Convert |-> {},
     S_ReadCsv |-> {"pd"},
     S_Status |-> {"df"},
     S_Lifespan |-> {"df", "sns"},
     S_SurvBySex |-> {"plt", "df", "sm"},
     S_HazardBySex |-> {"plt", "df", "sm", "np"},
     S_SurvByEra |-> {"plt", "np", "df", "sm"},
     S_HazardByEra |-> {"plt", "np", "df", "sm", "hazard"},
     S_PHReg |-> {"df", "sm"},
     S_Predict |-> {"plt", "df", "np", "result3"},
     S_Baseline |-> {"result3", "np", "plt"},
     N_Dpath |-> {},
     N_ReadSurv |-> {"os", "dpath", "pd"},
     N_Read |-> {"os", "dpath", "pd", "surv"},
     N_Derive |-> {"df", "np"},
     N_Filter |-> {"df"},
     N_Hazard |-> {"plt", "df", "sm", "np"},
     N_PHReg1 |-> {"sm", "df"},
     N_PHReg2 |-> {"sm", "df"},
     N_PHReg3 |-> {"sm", "df"}]

SurvivalBinds ==
    [S_Import |-> {"pd", "np", "sns", "sm", "plt", "os"},
     S_Convert |-> {},
     S_ReadCsv |-> {"df"},
     S_Status |-> {},
     S_Lifespan |-> {"df"},
     S_SurvBySex |-> {"ax", "sex", "dx", "s", "ha", "lb", "leg"},
     S_HazardBySex |-> {"hazard", "sex", "dx", "s", "tm", "hz", "ha", "lb", "leg", "_"},
     S_SurvByEra |-> {"ax", "byear", "ii", "dx", "s", "ha", "lb", "leg"},
     S_HazardByEra |-> {"byear", "ii", "dx", "s", "tm", "hz", "ha", "lb", "leg"},
     S_PHReg |-> {"df", "fml", "model3", "result3"},
     S_Predict |-> {"gender", "dx", "y", "ha", "lb", "leg", "_"},
     S_Baseline |-> {"bhaz", "x", "y", "haz", "_"},
     N_Dpath |-> {"dpath"},
     N_ReadSurv |-> {"fname", "colspecs", "names", "f", "surv"},
     N_Read |-> {"fname", "colspecs", "names", "f", "df"},
     N_Derive |-> {"df"},
     N_Filter |-> {"df"},
     N_Hazard |-> {"hazard", "sex", "female", "ii", "dx", "s", "tm", "hz", "ha", "lb",
                   "leg", "_"},
     N_PHReg1 |-> {"fml", "model1", "result1"},
     N_PHReg2 |-> {"fml", "model2", "result2"},
     N_PHReg3 |-> {"fml", "model3", "result3"}]

RlmsReads ==
    [R_Convert |-> {},
     R_Import |-> {},
     R_ReadCsv |-> {"pd"},
     R_Sizes |-> {"df"},
     R_ToNumeric |-> {"pd", "df"},
     R_Derive |-> {"df", "np"},
     R_Dx |-> {"df"},
     R_OLS |-> {"sm", "dx"},
     R_Subsample |-> {"dx", "np"},
     R_Mixed1 |-> {"sm", "dx"},
     R_Icc |-> {"result1"},
     R_Lines1 |-> {"pa", "np", "age_mean", "sns"},
     R_Mixed2 |-> {"sm", "dx"},
     R_Lines2 |-> {"result2", "np", "age_mean", "sns"},
     R_Slopes |-> {"result2", "np", "sns"},
     R_Mixed3 |-> {"sm", "dx"},
     R_Intercepts |-> {"result3", "np", "sns"},
     R_Mixed4 |-> {"sm", "dx"}]

RlmsBinds ==
    [R_Convert |-> {},
     R_Import |-> {"pd", "np", "sm", "sns"},
     R_ReadCsv |-> {"df"},
     R_Sizes |-> {"sz"},
     R_ToNumeric |-> {"qv", "c"},
     R_Derive |-> {"year_mean", "age_mean"},
     R_Dx |-> {"dx"},
     R_OLS |-> {"model0", "result0"},
     R_Subsample |-> {"idx", "idx_use", "dx"},
     R_Mixed1 |-> {"model1", "result1"},
     R_Icc |-> {"pa", "icc"},
     R_Lines1 |-> {"a", "b", "s", "k", "x", "y", "ax", "_"},
     R_Mixed2 |-> {"vcf", "model2", "result2"},
     R_Lines2 |-> {"pa", "a", "b", "si", "ss", "k", "x", "a1", "b1", "y", "ax", "_"},
     R_Slopes |-> {"pa", "m", "s", "x", "y", "ax", "_"},
     R_Mixed3 |-> {"vcf", "model3", "result3"},
     R_Intercepts |-> {"pa", "v1", "v2", "s1", "s2", "x", "y", "ax", "_"},
     R_Mixed4 |-> {"vcf", "model4", "result4"}]

Reads(c) == IF c \in DOMAIN SurvivalReads THEN SurvivalReads[c] ELSE RlmsReads[c]

\* A cell that is run before the cell defining a name it reads binds
\* nothing the later cell could use.
BindsWithoutDefinitions(c) ==
    (IF c \in DOMAIN SurvivalBinds THEN SurvivalBinds[c] ELSE RlmsBinds[c])
        \ {"hazard", "dpath", "age_mean"}
Binds(c) == IF c \in DOMAIN SurvivalBinds THEN SurvivalBinds[c] ELSE RlmsBinds[c]

\* Reading a name no cell has bound raises NameError and ends the run.
NameErrorIn(c) == ~(Reads(c) \subseteq env)

Raise(kind) ==
    /\ pc' = kind
    /\ UNCHANGED <<args, ret, s, sf1, hzArg, hz, strata, riskSets, nb, fs, opened,
                   written, df, dx, calls, env, year_mean, age_mean, idx_use, fits>>

\* A cell whose statements only import, plot or bind names that hold no
\* data-frame rows.
NamesOnly(c, next) ==
    IF NameErrorIn(c) THEN Raise("NameError")
    ELSE /\ pc' = next
         /\ env' = env \cup Binds(c)
         /\ UNCHANGED <<args, ret, s, sf1, hzArg, hz, strata, riskSets, nb, fs,
                        opened, written, df, dx, calls, year_mean, age_mean,
                        idx_use, fits>>

\* import pandas as pd; import numpy as np; ...
S_Import ==
    /\ pc = "S_Import"
    /\ NamesOnly("S_Import", "S_Convert")

\* `if False:` of the two conversion cells.
ConversionConditionTrue == TRUE
SchichConversionCondition == FALSE
RlmsConversionCondition == FALSE

\* if False: df = pd.read_excel(...); df = df[[...]]; df.to_csv("schich.csv.gz")
S_Convert ==
    /\ pc = "S_Convert"
    /\ IF NameErrorIn("S_Convert") THEN Raise("NameError")
       ELSE /\ IF SchichConversionCondition
               THEN /\ opened' = opened \cup {"xlsx"}
                    /\ df' = Project(fs.xlsx, {"PrsLabel", "BYear", "DYear", "Gender"})
                    /\ fs' = [fs EXCEPT !.schich = df']
                    /\ written' = written \cup {"schich"}
               ELSE UNCHANGED <<opened, df, fs, written>>
            /\ pc' = "S_ReadCsv"
            /\ UNCHANGED <<nb, dx, calls, s, hzArg, hz>>
            /\ UNCHANGED estVars
            /\ env' = env \cup Binds("S_Convert")
            /\ UNCHANGED rlmsVars

\* df = pd.read_csv("schich.csv.gz")
S_ReadCsv ==
    /\ pc = "S_ReadCsv"
    /\ IF NameErrorIn("S_ReadCsv") THEN Raise("NameError")
       ELSE /\ df' = fs.schich
            /\ opened' = opened \cup {"schich"}
            /\ pc' = "S_Status"
            /\ UNCHANGED <<nb, fs, written, dx, calls, s, hzArg, hz>>
            /\ UNCHANGED estVars
            /\ env' = env \cup Binds("S_ReadCsv")
            /\ UNCHANGED rlmsVars

\* The column assigned by df["status"] = 1
StatusColumnCensored(rows) == [i \in DOMAIN rows |-> Num(0)]
StatusColumn(rows) == [i \in DOMAIN rows |-> Num(1)]

\* df["status"] = 1
S_Status ==
    /\ pc = "S_Status"
    /\ IF NameErrorIn("S_Status") THEN Raise("NameError")
       ELSE /\ df' = Assign(df, "status", StatusColumn(df))
            /\ pc' = "S_Lifespan"
            /\ UNCHANGED <<nb, fs, opened, written, dx, calls, s, hzArg, hz>>
            /\ UNCHANGED estVars
            /\ env' = env \cup Binds("S_Status")
            /\ UNCHANGED rlmsVars

\* The rows kept by df.loc[df.lifespan > 0, :]
PositiveLifespanOrZero(r) == Ge(r.lifespan, Num(0))
PositiveLifespan(r) == Gt(r.lifespan, Num(0))

\* df["lifespan"] = df.DYear - df.BYear; df = df.loc[df.lifespan > 0, :]
S_Lifespan ==
    /\ pc = "S_Lifespan"
    /\ IF NameErrorIn("S_Lifespan") THEN Raise("NameError")
       ELSE /\ LET d1 == Assign(df, "lifespan",
                                [i \in DOMAIN df |-> Sub(df[i].DYear, df[i].BYear)])
               IN df' = Loc(d1, {i \in DOMAIN d1 : PositiveLifespan(d1[i])})
            /\ pc' = "S_SurvBySex"
            /\ UNCHANGED <<nb, fs, opened, written, dx, calls, s, hzArg, hz>>
            /\ UNCHANGED estVars
            /\ env' = env \cup Binds("S_Lifespan")
            /\ UNCHANGED rlmsVars

\* The arguments of SurvfuncRight(dx.lifespan, dx.status)
LifespanArgsWrongColumn(rows) ==
    [time |-> Column(rows, "lifespan"), status |-> Column(rows, "lifespan"),
     entry |-> NoEntry]
LifespanArgs(rows) ==
    [time |-> Column(rows, "lifespan"), status |-> Column(rows, "status"),
     entry |-> NoEntry]

\* One pass of a loop body: dx = ...; s = sm.SurvfuncRight(...); and, in the
\* hazard cells, tm, hz = hazard(s). An error raised by the estimator ends
\* the cell with the names as they are.
LoopBody(st, g, withHazard) ==
    LET r == SurvfuncRight(g.a)
        call == [fn |-> "SurvfuncRight", time |-> g.a.time,
                 status |-> g.a.status, entry |-> g.a.entry]
        gs == [bound |-> TRUE, sf |-> r.sf]
    IN IF st.err THEN st
       ELSE IF r.outcome = "error"
            THEN [st EXCEPT !.dx = g.rows, !.calls = @ \cup {call}, !.err = TRUE]
            ELSE [dx |-> g.rows, s |-> gs,
                  hzArg |-> IF withHazard THEN "s" ELSE st.hzArg,
                  hz |-> IF withHazard THEN hazardIn(gs, gs.sf) ELSE st.hz,
                  calls |-> st.calls \cup {call}, err |-> FALSE]

RECURSIVE RunLoop(_, _, _, _)
RunLoop(st, groups, k, withHazard) ==
    IF k > Len(groups) THEN st
    ELSE RunLoop(LoopBody(st, groups[k], withHazard), groups, k + 1, withHazard)

Names == [dx |-> dx, s |-> s, hzArg |-> hzArg, hz |-> hz, calls |-> calls, err |-> FALSE]

\* A loop cell: the names after the loop, and the next cell or the error.
LoopCell(groups, withHazard, next) ==
    LET st == RunLoop(Names, groups, 1, withHazard)
    IN /\ dx' = st.dx
       /\ s' = st.s
       /\ hzArg' = st.hzArg
       /\ hz' = st.hz
       /\ calls' = st.calls
       /\ pc' = IF st.err THEN "error" ELSE next

\* for sex in "Female", "Male": dx = df.loc[df.Gender == sex, :]
BySex ==
    [k \in 1..2 |->
        LET sex == <<"Female", "Male">>[k]
            rows == Loc(df, {i \in DOMAIN df : df[i].Gender = <<sex>>})
        IN [rows |-> rows, a |-> LifespanArgs(rows)]]

\* for byear in np.arange(0, 2000, 500):
\*     ii = (df.BYear >= byear) & (df.BYear < byear + 500)
ByEra ==
    [k \in 1..4 |->
        LET byear == 500 * (k - 1)
            rows == Loc(df, {i \in DOMAIN df : /\ Ge(df[i].BYear, Num(byear))
                                                /\ Lt(df[i].BYear, Num(byear + 500))})
        IN [rows |-> rows, a |-> LifespanArgs(rows)]]

S_SurvBySex ==
    /\ pc = "S_SurvBySex"
    /\ IF NameErrorIn("S_SurvBySex") THEN Raise("NameError")
       ELSE /\ LoopCell(BySex, FALSE, "S_HazardBySex")
            /\ UNCHANGED <<nb, fs, opened, written, df>>
            /\ UNCHANGED estVars
            /\ env' = IF pc' = "error" THEN env ELSE env \cup Binds("S_SurvBySex")
            /\ UNCHANGED rlmsVars

S_HazardBySex ==
    /\ pc = "S_HazardBySex"
    /\ IF NameErrorIn("S_HazardBySex") THEN Raise("NameError")
       ELSE /\ LoopCell(BySex, TRUE, "S_SurvByEra")
            /\ UNCHANGED <<nb, fs, opened, written, df>>
            /\ UNCHANGED estVars
            /\ env' = IF pc' = "error" THEN env ELSE env \cup Binds("S_HazardBySex")
            /\ UNCHANGED rlmsVars

S_SurvByEra ==
    /\ pc = "S_SurvByEra"
    /\ IF NameErrorIn("S_SurvByEra") THEN Raise("NameError")
       ELSE /\ LoopCell(ByEra, FALSE, "S_HazardByEra")
            /\ UNCHANGED <<nb, fs, opened, written, df>>
            /\ UNCHANGED estVars
            /\ env' = IF pc' = "error" THEN env ELSE env \cup Binds("S_SurvByEra")
            /\ UNCHANGED rlmsVars

S_HazardByEra ==
    /\ pc = "S_HazardByEra"
    /\ IF NameErrorIn("S_HazardByEra") THEN Raise("NameError")
       ELSE /\ LoopCell(ByEra, TRUE, "S_PHReg")
            /\ UNCHANGED <<nb, fs, opened, written, df>>
            /\ UNCHANGED estVars
            /\ env' = IF pc' = "error" THEN env ELSE env \cup Binds("S_HazardByEra")
            /\ UNCHANGED rlmsVars

\* df = df.loc[df.Gender.isin(["Female", "Male"]), :]
\* model3 = sm.PHReg.from_formula(fml, data=df)
S_PHReg ==
    /\ pc = "S_PHReg"
    /\ IF NameErrorIn("S_PHReg") THEN Raise("NameError")
       ELSE /\ df' = Loc(df, {i \in DOMAIN df : df[i].Gender \in {<<"Female">>, <<"Male">>}})
            /\ calls' = calls \cup {[fn |-> "PHReg", time |-> Column(df', "lifespan"),
                                     status |-> NoStatus, entry |-> NoEntry]}
            /\ pc' = "S_Predict"
            /\ UNCHANGED <<nb, fs, opened, written, dx, s, hzArg, hz>>
            /\ UNCHANGED estVars
            /\ env' = env \cup Binds("S_PHReg")
            /\ UNCHANGED rlmsVars

\* df.iloc[0:k, :]
ILoc(rows, k) == SubSeq(rows, 1, IF Len(rows) < k THEN Len(rows) ELSE k)

\* np.linspace(start, stop, num)
Linspace(start, stop, num) ==
    [i \in 1..num |->
        IF num = 1 THEN Rat(start, 1)
        ELSE Rat(start * (num - 1) + (i - 1) * (stop - start), num - 1)]

\* for gender in "Female", "Male":
\*     dx = df.iloc[0:100, :].copy(); dx["BYear"] = np.linspace(0, 2019, 100)
\*     dx["Gender"] = gender; y = result3.predict(exog=dx)
\* Assigning an array longer than the frame raises ValueError.
S_Predict ==
    /\ pc = "S_Predict"
    /\ IF NameErrorIn("S_Predict") THEN Raise("NameError")
       ELSE /\ LET d0 == ILoc(df, PredictRows)
                    byear == Linspace(0, 2019, PredictRows)
                    d1 == Assign(d0, "BYear", [i \in DOMAIN d0 |-> Num(byear[i])])
                    d2 == Assign(d1, "Gender", [i \in DOMAIN d1 |-> <<"Male">>])
               IN IF Len(d0) # PredictRows
                  THEN /\ dx' = d0
                       /\ pc' = "ValueError"
                       /\ env' = env
                  ELSE /\ dx' = d2
                       /\ pc' = "S_Baseline"
                       /\ env' = env \cup Binds("S_Predict")
            /\ UNCHANGED <<nb, fs, opened, written, df, calls, s, hzArg, hz>>
            /\ UNCHANGED estVars
            /\ UNCHANGED rlmsVars

\* bhaz = result3.baseline_cumulative_hazard[0]; ...; plt.plot(x[0:-1], haz, lw=3)
S_Baseline ==
    /\ pc = "S_Baseline"
    /\ NamesOnly("S_Baseline", "N_Dpath")

\* dpath = "/nfs/kshedden/NHANES/"
N_Dpath ==
    /\ pc = "N_Dpath"
    /\ NamesOnly("N_Dpath", "N_ReadSurv")

\* f = os.path.join(dpath, fname); surv = pd.read_fwf(f, ...)
N_ReadSurv ==
    /\ pc = "N_ReadSurv"
    /\ NamesOnly("N_ReadSurv", "N_Read")

\* surv = pd.read_fwf(...); df = pd.read_fwf(...); df = pd.merge(surv, df, ...)
N_Read ==
    /\ pc = "N_Read"
    /\ IF NameErrorIn("N_Read") THEN Raise("NameError")
       ELSE /\ df' = fs.nhanes
            /\ opened' = opened \cup {"nhanes"}
            /\ pc' = "N_Derive"
            /\ UNCHANGED <<nb, fs, written, dx, calls, s, hzArg, hz>>
            /\ UNCHANGED estVars
            /\ env' = env \cup Binds("N_Read")
            /\ UNCHANGED rlmsVars

\* df["poverty"] = df["poverty"].replace({888888: np.nan})
ReplacePovertyDiscarded(r) == r.poverty
ReplacePoverty(r) == IF Eq(r.poverty, PovertySentinel) THEN NaN ELSE r.poverty

\* (df.sex == 2).astype(np.int) and (df.urbanrural == 2).astype(np.int)
IsTwo(x) == IF Eq(x, 2) THEN Num(1) ELSE Num(0)

\* 12*df.age
AgeIntInYears(age) == age
AgeInt(age) == Scale(12, age)

\* The NHANES preparation cell, ending in df = df.dropna()
N_Derive ==
    /\ pc = "N_Derive"
    /\ IF NameErrorIn("N_Derive") THEN Raise("NameError")
       ELSE /\ LET d1 == Assign(df, "poverty", [i \in DOMAIN df |-> ReplacePoverty(df[i])])
                   d2 == Assign(d1, "female", [i \in DOMAIN d1 |-> IsTwo(d1[i].sex)])
                   d3 == Assign(d2, "rural", [i \in DOMAIN d2 |-> IsTwo(d2[i].urbanrural)])
                   d4 == Assign(d3, "age_int", [i \in DOMAIN d3 |-> AgeInt(d3[i].age)])
                   d5 == Assign(d4, "end",
                                [i \in DOMAIN d4 |-> Add(d4[i].age_int, d4[i].permth_int)])
               IN df' = DropNa(d5)
            /\ pc' = "N_Filter"
            /\ UNCHANGED <<nb, fs, opened, written, dx, calls, s, hzArg, hz>>
            /\ UNCHANGED estVars
            /\ env' = env \cup Binds("N_Derive")
            /\ UNCHANGED rlmsVars

\* The rows kept by df.loc[df.end > df.age_int]
EndNotBeforeEntry(r) == Ge(r.end, r.age_int)
EndAfterEntry(r) == Gt(r.end, r.age_int)

N_Filter ==
    /\ pc = "N_Filter"
    /\ IF NameErrorIn("N_Filter") THEN Raise("NameError")
       ELSE /\ df' = Loc(df, {i \in DOMAIN df : EndAfterEntry(df[i])})
            /\ pc' = "N_Hazard"
            /\ UNCHANGED <<nb, fs, opened, written, dx, calls, s, hzArg, hz>>
            /\ UNCHANGED estVars
            /\ env' = env \cup Binds("N_Filter")
            /\ UNCHANGED rlmsVars

\* The arguments of SurvfuncRight(dx.end, dx.mortstat, entry=dx.age_int)
EndArgs(rows) ==
    [time |-> Column(rows, "end"), status |-> Column(rows, "mortstat"),
     entry |-> IF rows = <<>> THEN NoEntry ELSE Column(rows, "age_int")]

\* for female in (0, 1): ii = df.female == female; dx = df.loc[ii, :]
ByFemale ==
    [k \in 1..2 |->
        LET rows == Loc(df, {i \in DOMAIN df : Eq(df[i].female, k - 1)})
        IN [rows |-> rows, a |-> EndArgs(rows)]]

N_Hazard ==
    /\ pc = "N_Hazard"
    /\ IF NameErrorIn("N_Hazard") THEN Raise("NameError")
       ELSE /\ LoopCell(ByFemale, TRUE, "N_PHReg1")
            /\ UNCHANGED <<nb, fs, opened, written, df>>
            /\ UNCHANGED estVars
            /\ env' = IF pc' = "error" THEN env ELSE env \cup Binds("N_Hazard")
            /\ UNCHANGED rlmsVars

\* model = sm.PHReg.from_formula(fml, status="mortstat", entry=df.age_int, ...)
N_PHReg(k) ==
    /\ pc = <<"N_PHReg1", "N_PHReg2", "N_PHReg3">>[k]
    /\ IF NameErrorIn(<<"N_PHReg1", "N_PHReg2", "N_PHReg3">>[k]) THEN Raise("NameError")
       ELSE /\ calls' = calls \cup {[fn |-> "PHReg", time |-> Column(df, "end"),
                                     status |-> Column(df, "mortstat"),
                                     entry |-> EndArgs(df).entry]}
            /\ pc' = <<"N_PHReg2", "N_PHReg3", "done">>[k]
            /\ UNCHANGED <<nb, fs, opened, written, df, dx, s, hzArg, hz>>
            /\ UNCHANGED estVars
            /\ env' = env \cup Binds(<<"N_PHReg1", "N_PHReg2", "N_PHReg3">>[k])
            /\ UNCHANGED rlmsVars

\* if False: df = pd.read_stata(..., columns=cols); df.to_csv(gid, index=None)
R_Convert ==
    /\ pc = "R_Convert"
    /\ IF NameErrorIn("R_Convert") THEN Raise("NameError")
       ELSE /\ IF RlmsConversionCondition
               THEN /\ opened' = opened \cup {"dta"}
                    /\ df' = Project(fs.dta, RlmsCols)
                    /\ fs' = [fs EXCEPT !.rlms = df']
                    /\ written' = written \cup {"rlms"}
               ELSE UNCHANGED <<opened, df, fs, written>>
            /\ pc' = "R_Import"
            /\ UNCHANGED <<nb, dx, calls, s, hzArg, hz>>
            /\ UNCHANGED estVars
            /\ env' = env \cup Binds("R_Convert")
            /\ UNCHANGED rlmsVars

\* import pandas as pd; import numpy as np; import statsmodels.api as sm; ...
R_Import ==
    /\ pc = "R_Import"
    /\ NamesOnly("R_Import", "R_ReadCsv")

\* df = pd.read_csv("/nfs/kshedden/RLMS/rlms.csv.gz")
R_ReadCsv ==
    /\ pc = "R_ReadCsv"
    /\ IF NameErrorIn("R_ReadCsv") THEN Raise("NameError")
       ELSE /\ df' = fs.rlms
            /\ opened' = opened \cup {"rlms"}
            /\ pc' = "R_Sizes"
            /\ UNCHANGED <<nb, fs, written, dx, calls, s, hzArg, hz>>
            /\ UNCHANGED estVars
            /\ env' = env \cup Binds("R_ReadCsv")
            /\ UNCHANGED rlmsVars

\* sz = df[["idind", "m1"]].dropna().groupby("idind").size().value_counts()
R_Sizes ==
    /\ pc = "R_Sizes"
    /\ NamesOnly("R_Sizes", "R_ToNumeric")

\* The value of a string of decimal digits.
Digit ==
    ("0" :> 0) @@ ("1" :> 1) @@ ("2" :> 2) @@ ("3" :> 3) @@ ("4" :> 4) @@
    ("5" :> 5) @@ ("6" :> 6) @@ ("7" :> 7) @@ ("8" :> 8) @@ ("9" :> 9)

RECURSIVE DecimalValue(_, _)
DecimalValue(chars, k) ==
    IF k = 0 THEN 0 ELSE 10 * DecimalValue(chars, k - 1) + Digit[chars[k]]

Parses(chars) == chars # <<>> /\ \A k \in DOMAIN chars : chars[k] \in DOMAIN Digit

\* pd.to_numeric(x, errors="coerce") of one value: a number stays, a string
\* is parsed, and what does not parse becomes NaN.
ToNumericRaising(x) ==
    IF x = NaN THEN NaN
    ELSE IF IsText(x) THEN (IF Parses(x[2]) THEN Num(DecimalValue(x[2], Len(x[2]))) ELSE x)
    ELSE x
ToNumeric(x) ==
    IF x = NaN THEN NaN
    ELSE IF IsText(x) THEN (IF Parses(x[2]) THEN Num(DecimalValue(x[2], Len(x[2]))) ELSE NaN)
    ELSE x

qv == <<"idind", "year", "h6", "m1", "m2", "o38a", "j57", "j59">>

\* for c in qv: df[c] = pd.to_numeric(df[c], errors="coerce")
RECURSIVE CoerceLoop(_, _)
CoerceLoop(rows, k) ==
    IF k > Len(qv) THEN rows
    ELSE CoerceLoop(Assign(rows, qv[k], [i \in DOMAIN rows |-> ToNumeric(rows[i][qv[k]])]),
                    k + 1)

R_ToNumeric ==
    /\ pc = "R_ToNumeric"
    /\ IF NameErrorIn("R_ToNumeric") THEN Raise("NameError")
       ELSE /\ df' = CoerceLoop(df, 1)
            /\ pc' = "R_Derive"
            /\ env' = env \cup Binds("R_ToNumeric")
            /\ UNCHANGED <<nb, fs, opened, written, dx, calls, s, hzArg, hz>>
            /\ UNCHANGED estVars
            /\ UNCHANGED rlmsVars

\* Float cells of the derived columns are exact rationals <<num, den>>.
RatSub(p, q) == Rat(p[1] * q[2] - q[1] * p[2], p[2] * q[2])

\* df.c, the values of column c
Cells(rows, c) == [i \in DOMAIN rows |-> rows[i][c]]

\* col.mean(): the mean of the values present; NaN when there is none.
RECURSIVE Sum(_, _)
Sum(col, i) ==
    IF i > Len(col) THEN 0
    ELSE (IF col[i] = NaN THEN 0 ELSE Val(col[i])) + Sum(col, i + 1)

MeanOverAllRows(col) ==
    IF \A i \in DOMAIN col : col[i] = NaN THEN NaN
    ELSE Num(Rat(Sum(col, 1), Len(col)))
Mean(col) ==
    LET present == {i \in DOMAIN col : col[i] # NaN}
    IN IF present = {} THEN NaN
       ELSE Num(Rat(Sum(col, 1), Cardinality(present)))

\* x - m for a column value x and a mean m
Center(x, m) ==
    IF x = NaN \/ m = NaN THEN NaN ELSE Num(RatSub(Rat(Val(x), 1), Val(m)))

\* (df.h5 == "female").astype(np.int)
FemaleOfAny(h5) == IF h5 # <<"male">> THEN Num(1) ELSE Num(0)
FemaleOf(h5) == IF h5 = <<"female">> THEN Num(1) ELSE Num(0)

\* df.m1 / (df.m2 / 100)**2; a float division by zero is inf, 0/0 is NaN
Bmi(m1, m2) ==
    IF m1 = NaN \/ m2 = NaN THEN NaN
    ELSE IF Val(m2) = 0
         THEN (IF Val(m1) = 0 THEN NaN ELSE Num(<<IF Val(m1) > 0 THEN 1 ELSE -1, 0>>))
         ELSE Num(Rat(Val(m1) * 10000, Val(m2) * Val(m2)))

\* The derived-variable cell:
\*   df["female"] = (df.h5 == "female").astype(np.int)
\*   df["age"] = df.year - df.h6
\*   df["bmi"] = df.m1 / (df.m2 / 100)**2
\*   year_mean = df.year.mean();  df["year_cen"] = df.year - year_mean
\*   age_mean = df.age.mean();    df["age_cen"] = df.age - age_mean
\*   df["birth_year_cen"] = df.h6 - df.h6.mean()
\* No statement of the cell changes a column an earlier one has read.
R_Derive ==
    /\ pc = "R_Derive"
    /\ IF NameErrorIn("R_Derive") THEN Raise("NameError")
       ELSE /\ LET female == [i \in DOMAIN df |-> FemaleOf(df[i].h5)]
                    age == [i \in DOMAIN df |-> Sub(df[i].year, df[i].h6)]
                    bmi == [i \in DOMAIN df |-> Bmi(df[i].m1, df[i].m2)]
                    ym == Mean(Cells(df, "year"))
                    am == Mean(age)
                    hm == Mean(Cells(df, "h6"))
               IN /\ year_mean' = ym
                  /\ age_mean' = am
                  /\ df' = [i \in DOMAIN df |->
                               [female |-> female[i],
                                age |-> age[i],
                                bmi |-> bmi[i],
                                year_cen |-> Center(df[i].year, year_mean'),
                                age_cen |-> Center(age[i], age_mean'),
                                birth_year_cen |-> Center(df[i].h6, hm)] @@ df[i]]
            /\ pc' = "R_Dx"
            /\ env' = env \cup Binds("R_Derive")
            /\ UNCHANGED <<nb, fs, opened, written, dx, calls, s, hzArg, hz, idx_use, fits>>
            /\ UNCHANGED estVars

\* The columns of the analysis dataset.
DxCols == {"idind", "bmi", "age_cen", "female", "birth_year_cen", "year_cen", "psu"}

\* dx = df[["idind", "bmi", "age_cen", "female", "birth_year_cen",
\*          "year_cen", "psu"]].dropna()
R_Dx ==
    /\ pc = "R_Dx"
    /\ IF NameErrorIn("R_Dx") THEN Raise("NameError")
       ELSE /\ dx' = DropNa(Project(df, DxCols))
            /\ pc' = "R_OLS"
            /\ env' = env \cup Binds("R_Dx")
            /\ UNCHANGED <<nb, fs, opened, written, df, calls, s, hzArg, hz>>
            /\ UNCHANGED estVars
            /\ UNCHANGED rlmsVars

\* model = sm.<class>.from_formula(..., data=dx); result = model.fit()
FitOnAllSubjects(model, groups) ==
    /\ fits' = Append(fits, [model |-> model, groups |-> groups,
                             data |-> DropNa(Project(df, DxCols))])
    /\ UNCHANGED <<nb, fs, opened, written, df, dx, calls, s, hzArg, hz>>
    /\ UNCHANGED <<year_mean, age_mean, idx_use>>
    /\ UNCHANGED estVars
Fit(model, groups) ==
    /\ fits' = Append(fits, [model |-> model, groups |-> groups, data |-> dx])
    /\ UNCHANGED <<nb, fs, opened, written, df, dx, calls, s, hzArg, hz>>
    /\ UNCHANGED <<year_mean, age_mean, idx_use>>
    /\ UNCHANGED estVars

\* model0 = sm.OLS.from_formula("bmi ~ age_cen*female + year_cen", data=dx)
R_OLS ==
    /\ pc = "R_OLS"
    /\ IF NameErrorIn("R_OLS") THEN Raise("NameError")
       ELSE /\ Fit("model0", "none")
            /\ pc' = "R_Subsample"
            /\ env' = env \cup Binds("R_OLS")

\* dx.idind.unique()
Unique(rows, c) == {Val(rows[i][c]) : i \in DOMAIN rows}

Injective(q) == \A i, j \in DOMAIN q : q[i] = q[j] => i = j

\* np.random.choice(a, size, replace=False): the arrays it can return.
\* There is none when a holds fewer than size values: it raises ValueError.
ChoiceWithReplacement(a, size) == [1..size -> a]
Choice(a, size) == {q \in [1..size -> a] : Injective(q)}

\* dx.idind.isin(idx_use)
IsInAny(x, use) == TRUE
IsIn(x, use) == \E k \in DOMAIN use : use[k] = Val(x)

\* idx = dx.idind.unique()
\* idx_use = np.random.choice(idx, 2000, replace=False)
\* dx = dx.loc[dx.idind.isin(idx_use), :]
R_Subsample ==
    /\ pc = "R_Subsample"
    /\ IF NameErrorIn("R_Subsample") THEN Raise("NameError")
       ELSE /\ LET idx == Unique(dx, "idind")
               IN IF Choice(idx, SampleSize) = {}
                  THEN /\ pc' = "ValueError"
                       /\ UNCHANGED <<dx, idx_use, env>>
                  ELSE /\ \E use \in Choice(idx, SampleSize) :
                             /\ idx_use' = use
                             /\ dx' = Loc(dx, {i \in DOMAIN dx : IsIn(dx[i].idind, use)})
                       /\ pc' = "R_Mixed1"
                       /\ env' = env \cup Binds("R_Subsample")
            /\ UNCHANGED <<nb, fs, opened, written, df, calls, s, hzArg, hz>>
            /\ UNCHANGED <<year_mean, age_mean, fits>>
            /\ UNCHANGED estVars

\* model1 = sm.MixedLM.from_formula(..., groups="idind", data=dx)
R_Mixed1 ==
    /\ pc = "R_Mixed1"
    /\ IF NameErrorIn("R_Mixed1") THEN Raise("NameError")
       ELSE /\ Fit("model1", "idind")
            /\ pc' = "R_Icc"
            /\ env' = env \cup Binds("R_Mixed1")

\* pa = result1.params; icc = pa["idind Var"] / (pa["idind Var"] + result1.scale)
R_Icc ==
    /\ pc = "R_Icc"
    /\ NamesOnly("R_Icc", "R_Lines1")

\* a = pa["Intercept"]; ...; y = a + b * (x - age_mean) + s * np.random.normal()
R_Lines1 ==
    /\ pc = "R_Lines1"
    /\ NamesOnly("R_Lines1", "R_Mixed2")

\* model2 = sm.MixedLM.from_formula(..., groups="idind", vc_formula=vcf, data=dx)
R_Mixed2 ==
    /\ pc = "R_Mixed2"
    /\ IF NameErrorIn("R_Mixed2") THEN Raise("NameError")
       ELSE /\ Fit("model2", "idind")
            /\ pc' = "R_Lines2"
            /\ env' = env \cup Binds("R_Mixed2")

\* pa = result2.params; ...; y = a1 + b1 * (x - age_mean)
R_Lines2 ==
    /\ pc = "R_Lines2"
    /\ NamesOnly("R_Lines2", "R_Slopes")

\* pa = result2.params; m = pa["age_cen"]; s = np.sqrt(pa["s Var"]); ...
R_Slopes ==
    /\ pc = "R_Slopes"
    /\ NamesOnly("R_Slopes", "R_Mixed3")

\* model3 = sm.MixedLM.from_formula(..., groups="psu", vc_formula=vcf, data=dx)
R_Mixed3 ==
    /\ pc = "R_Mixed3"
    /\ IF NameErrorIn("R_Mixed3") THEN Raise("NameError")
       ELSE /\ Fit("model3", "psu")
            /\ pc' = "R_Intercepts"
            /\ env' = env \cup Binds("R_Mixed3")

\* pa = result3.params; v1 = pa["i Var"]; v2 = pa["ipsu Var"]; ...
R_Intercepts ==
    /\ pc = "R_Intercepts"
    /\ NamesOnly("R_Intercepts", "R_Mixed4")

\* model4 = sm.MixedLM.from_formula(..., groups="psu", vc_formula=vcf, data=dx)
R_Mixed4 ==
    /\ pc = "R_Mixed4"
    /\ IF NameErrorIn("R_Mixed4") THEN Raise("NameError")
       ELSE /\ Fit("model4", "psu")
            /\ pc' = "done"
            /\ env' = env \cup Binds("R_Mixed4")

Next ==
    \/ S_Import
    \/ S_Convert
    \/ S_ReadCsv
    \/ S_Status
    \/ S_Lifespan
    \/ S_SurvBySex
    \/ S_HazardBySex
    \/ S_SurvByEra
    \/ S_HazardByEra
    \/ S_PHReg
    \/ S_Predict
    \/ S_Baseline
    \/ N_Dpath
    \/ N_ReadSurv
    \/ N_Read
    \/ N_Derive
    \/ N_Filter
    \/ N_Hazard
    \/ \E k \in 1..3 : N_PHReg(k)
    \/ R_Convert
    \/ R_Import
    \/ R_ReadCsv
    \/ R_Sizes
    \/ R_ToNumeric
    \/ R_Derive
    \/ R_Dx
    \/ R_OLS
    \/ R_Subsample
    \/ R_Mixed1
    \/ R_Icc
    \/ R_Lines1
    \/ R_Mixed2
    \/ R_Lines2
    \/ R_Slopes
    \/ R_Mixed3
    \/ R_Intercepts
    \/ R_Mixed4

Spec == Init /\ [][Next]_vars

\* ===================================================== claims C1..C7
\* The estimate read as a step function: its value at time t is the
\* probability reported at the last reported time <= t, and 1 before the
\* first reported time.
SurvAt(sf, t) ==
    LET before == {k \in DOMAIN sf.surv_times : sf.surv_times[k] <= t}
    IN IF before = {} THEN RatOne
       ELSE sf.surv_prob[CHOOSE k \in before : \A j \in before : j <= k]

\* d(t) and R(t) as sets of records.
EventSet(a, t) == {i \in Idx(a) : a.time[i] = t /\ a.status[i] = 1}
RiskSet(a, t) ==
    {i \in Idx(a) : t <= a.time[i] /\ (a.entry = NoEntry \/ a.entry[i] < t)}
TimeSet(a) == {a.time[i] : i \in Idx(a)}

RECURSIVE KMProduct(_, _)
KMProduct(a, S) ==
    IF S = {} THEN RatOne
    ELSE LET u == CHOOSE x \in S : TRUE
             R == Cardinality(RiskSet(a, u))
             d == Cardinality(EventSet(a, u))
         IN RatMul(Rat(R - d, R), KMProduct(a, S \ {u}))

\* C1: at each distinct recorded time t_k the estimate equals the product,
\* over the distinct times t_i <= t_k, of 1 - d(t_i)/R(t_i).
C1_ProductLimitValue ==
    ret.outcome = "ok" =>
        \A t \in TimeSet(args) :
            SurvAt(ret.sf, t) = KMProduct(args, {u \in TimeSet(args) : u <= t})

C1_Witness ==
    /\ ret.outcome = "ok"
    /\ Cardinality(TimeSet(args)) >= 3
    /\ \E i \in Idx(args) : args.status[i] = 0
    /\ \E k \in DOMAIN ret.sf.surv_prob :
          /\ k >= 2
          /\ RatPos(ret.sf.surv_prob[k])
          /\ ret.sf.surv_prob[k] # RatOne
          /\ ret.sf.surv_prob[k] # ret.sf.surv_prob[k - 1]

\* C2: the estimate is a step function that steps only at event times: it
\* changes from time t-1 to time t only if a record with status 1 is
\* recorded at t; a time with only censored records leaves it unchanged.
C2_StepsOnlyAtEvents ==
    ret.outcome = "ok" =>
        \A t \in 1..(MaxT + 1) :
            /\ SurvAt(ret.sf, t) # SurvAt(ret.sf, t - 1) => EventSet(args, t) # {}
            /\ EventSet(args, t) = {} => SurvAt(ret.sf, t) = SurvAt(ret.sf, t - 1)

C2_Witness ==
    /\ ret.outcome = "ok"
    /\ \E t \in TimeSet(args) :
          /\ EventSet(args, t) = {}
          /\ \E u \in TimeSet(args) : u < t /\ EventSet(args, u) # {}
          /\ \E u \in TimeSet(args) : u > t /\ EventSet(args, u) # {}
          /\ SurvAt(ret.sf, t) = SurvAt(ret.sf, t - 1)
          /\ SurvAt(ret.sf, t) # RatOne

\* C3: with every status 1 and no entry times the estimate at every time t
\* is (number of records with time > t) / (number of records).
NoCensoring(a) == a.entry = NoEntry /\ \A i \in Idx(a) : a.status[i] = 1

C3_ComplementOfECDF ==
    (ret.outcome = "ok" /\ NoCensoring(args)) =>
        \A t \in 0..(MaxT + 1) :
            SurvAt(ret.sf, t) =
                Rat(Cardinality({i \in Idx(args) : args.time[i] > t}), Len(args.time))

C3_Witness ==
    /\ ret.outcome = "ok"
    /\ NoCensoring(args)
    /\ Len(args.time) >= 3
    /\ Cardinality(TimeSet(args)) = 2
    /\ Len(ret.sf.surv_prob) = 2
    /\ RatPos(ret.sf.surv_prob[1])

HasZeroDuration(a) ==
    a.entry # NoEntry /\ \E i \in Idx(a) : a.time[i] - a.entry[i] = 0

C9_HazardOfArgument ==
    hzArg # "none" => hz = HazardBody(Lookup(hzArg).sf)

\* ===================================================== claims C8, C10
\* The survival time of a record handed to an estimator: its recorded
\* time, less its entry time when entry times are passed.
Duration(c, i) == c.time[i] - (IF c.entry = NoEntry THEN 0 ELSE c.entry[i])

AfterLifespanFilter ==
    pc \in {"S_SurvBySex", "S_HazardBySex", "S_SurvByEra", "S_HazardByEra", "S_PHReg"}
AfterEndFilter == pc \in {"N_Hazard", "N_PHReg1", "N_PHReg2", "N_PHReg3", "done"}

\* C8: in a top-to-bottom run of the survival notebook no zero or negative
\* survival time reaches SurvfuncRight or PHReg: every record passed has
\* lifespan = DYear - BYear > 0 (notable people) or end > age_int (NHANES),
\* and no estimator call ends the run in an error.
C8_NoNonPositiveDurationPassed ==
    nb = "survival" =>
        /\ \A c \in calls : \A i \in DOMAIN c.time : Duration(c, i) > 0
        /\ AfterLifespanFilter =>
              \A i \in DOMAIN df :
                  /\ df[i].lifespan = Sub(df[i].DYear, df[i].BYear)
                  /\ df[i].lifespan # NaN
                  /\ Val(df[i].lifespan) > 0
        /\ AfterEndFilter =>
              \A i \in DOMAIN df :
                  /\ df[i].end # NaN /\ df[i].age_int # NaN
                  /\ Val(df[i].end) > Val(df[i].age_int)
        /\ pc # "error"

C8_Witness ==
    /\ nb = "survival"
    /\ pc = "done"
    /\ \E i \in DOMAIN fs.nhanes : fs.nhanes[i].permth_int = Num(0)
    /\ \E c \in calls : c.fn = "SurvfuncRight" /\ c.entry # NoEntry /\ Len(c.time) >= 1
    /\ \E c \in calls : c.fn = "PHReg" /\ c.entry # NoEntry /\ Len(c.time) >= 1
    /\ \E c \in calls : c.fn = "SurvfuncRight" /\ c.entry = NoEntry /\ Len(c.time) >= 1
    /\ \E c \in calls : c.fn = "PHReg" /\ c.entry = NoEntry /\ Len(c.time) >= 1

\* C10: running either notebook top to bottom never enters the body of an
\* `if False:` cell: the Excel sheet and the Stata file are not read and
\* neither schich.csv.gz nor rlms.csv.gz is written.
C10_ConversionCellsDoNotRun ==
    /\ "xlsx" \notin opened
    /\ "dta" \notin opened
    /\ "schich" \notin written
    /\ "rlms" \notin written
    /\ pc \in {"S_ReadCsv", "R_ReadCsv"} => df = <<>>

C10_Witness ==
    /\ pc = "done"
    /\ opened # {}
    /\ df # <<>>
    /\ written = {}

\* ===================================================== claim C11
\* The code cells of each notebook in document order.
SurvivalCells ==
    <<"S_Import", "S_Convert", "S_ReadCsv", "S_Status", "S_Lifespan", "S_SurvBySex",
      "S_HazardBySex", "S_SurvByEra", "S_HazardByEra", "S_PHReg", "S_Predict",
      "S_Baseline", "N_Dpath", "N_ReadSurv", "N_Read", "N_Derive", "N_Filter",
      "N_Hazard", "N_PHReg1", "N_PHReg2", "N_PHReg3">>
RlmsCells ==
    <<"R_Convert", "R_Import", "R_ReadCsv", "R_Sizes", "R_ToNumeric", "R_Derive",
      "R_Dx", "R_OLS", "R_Subsample", "R_Mixed1", "R_Icc", "R_Lines1", "R_Mixed2",
      "R_Lines2", "R_Slopes", "R_Mixed3", "R_Intercepts", "R_Mixed4">>
CellsOf(n) == IF n = "survival" THEN SurvivalCells ELSE RlmsCells

\* The number of cells completed when the run is at pc.
Completed(n, c) ==
    IF c = "done" THEN Len(CellsOf(n))
    ELSE (CHOOSE k \in DOMAIN CellsOf(n) : CellsOf(n)[k] = c) - 1

Running == nb \in {"survival", "rlms"} /\ pc \notin {"error", "ValueError", "NameError"}

\* C11: cells run one at a time in document order, and no cell reads a
\* name before it is bound: no run ends in a NameError, the names bound
\* when a cell starts are exactly those bound by the cells before it in
\* the document, and they include every name the cell reads.
C11_NamesBoundBeforeUse ==
    /\ pc # "NameError"
    /\ Running =>
          /\ pc \in {CellsOf(nb)[k] : k \in DOMAIN CellsOf(nb)} \cup {"done"}
          /\ env = UNION {Binds(CellsOf(nb)[k]) : k \in 1..Completed(nb, pc)}
          /\ pc # "done" => Reads(pc) \subseteq env

C11_Witness ==
    /\ nb = "rlms"
    /\ pc = "R_Lines2"
    /\ {"age_mean", "result2", "dx", "df"} \subseteq env
    /\ "result3" \notin env
    /\ age_mean # NaN
    /\ Len(fits) = 3

\* ===================================================== claim C12
\* The number a string of decimal digits denotes, digit by digit from the
\* right.
RECURSIVE Pow10(_)
Pow10(k) == IF k = 0 THEN 1 ELSE 10 * Pow10(k - 1)

RECURSIVE Numeral(_, _)
Numeral(chars, k) ==
    IF k > Len(chars) THEN 0
    ELSE Digit[chars[k]] * Pow10(Len(chars) - k) + Numeral(chars, k + 1)

Coerced ==
    nb = "rlms" /\ pc \notin {"R_Convert", "R_Import", "R_ReadCsv", "R_Sizes", "R_ToNumeric"}

\* C12: after the coercion loop every value of the eight columns is a
\* number or missing: a number of the file is kept, a string of digits has
\* become the number it denotes, any other string has become missing
\* without an error, and no other column or row has changed.
C12_CoercedToNumberOrMissing ==
    Coerced =>
        /\ Len(df) = Len(fs.rlms)
        /\ \A i \in DOMAIN df : \A k \in DOMAIN qv :
              LET raw == fs.rlms[i][qv[k]]
                  x == df[i][qv[k]]
              IN /\ ~IsText(x)
                 /\ raw = NaN => x = NaN
                 /\ (raw # NaN /\ ~IsText(raw)) => x = raw
                 /\ (IsText(raw) /\ Parses(raw[2])) => x = Num(Numeral(raw[2], 1))
                 /\ (IsText(raw) /\ ~Parses(raw[2])) => x = NaN
        /\ \A i \in DOMAIN df : \A c \in RlmsCols \ {qv[k] : k \in DOMAIN qv} :
              df[i][c] = fs.rlms[i][c]

C12_Witness ==
    /\ nb = "rlms"
    /\ pc = "R_Derive"
    /\ Len(df) = 2
    /\ fs.rlms[1].m1 = Text(<<"7", "0">>) /\ df[1].m1 = Num(70)
    /\ fs.rlms[2].m1 = Text(<<"7", "x">>) /\ df[2].m1 = NaN
    /\ df[2].year = Num(2000)

\* ===================================================== claim C13
CompleteRow(r) == \A c \in DxCols : r[c] # NaN

BeforeSubsampling == pc \in {"R_OLS", "R_Subsample", "ValueError"}
AfterSubsampling ==
    pc \in {"R_Mixed1", "R_Icc", "R_Lines1", "R_Mixed2", "R_Lines2", "R_Slopes",
            "R_Mixed3", "R_Intercepts", "R_Mixed4", "done"}

NotableFitted == nb = "survival" /\ pc \in {"S_Predict", "S_Baseline", "N_Dpath", "N_ReadSurv", "N_Read"}

\* C14: the notable-people fit is called without status and so has no
\* censoring: every record is an event, which is the assignment the
\* dataset's status column (1 in every row) would give if it were passed.
C14_NoStatusMeansAllEvents ==
    NotableFitted =>
        \E c \in calls :
            /\ c.fn = "PHReg"
            /\ c.status = NoStatus
            /\ c.time = Column(df, "lifespan")
            /\ PHRegStatus(c) = Column(df, "status")
            /\ LET a == [time |-> c.time, status |-> PHRegStatus(c), entry |-> c.entry]
               IN \A i \in Idx(a) : i \in PHRegRiskSets(a, NoStrata)[i]

C14_Witness ==
    /\ nb = "survival"
    /\ pc = "S_Predict"
    /\ Len(df) = 2
    /\ df[1].lifespan # df[2].lifespan
    /\ \E c \in calls : c.fn = "PHReg" /\ c.status = NoStatus /\ Len(c.time) = 2

\* ===================================================== claim C15
\* From the status assignment until the NHANES section rebinds df.
NotablePhase ==
    /\ nb = "survival"
    /\ pc \in {"S_Lifespan", "S_SurvBySex", "S_HazardBySex", "S_SurvByEra", "S_HazardByEra",
               "S_PHReg", "S_Predict", "S_Baseline", "N_Dpath", "N_ReadSurv", "N_Read",
               "ValueError"}

\* C15: in the notable-people case study status is identically 1: every
\* row of df and of dx has status 1 from the assignment on, through every
\* filter, and every SurvfuncRight call of the study is passed a status
\* array of ones.
C15_StatusIdenticallyOne ==
    /\ NotablePhase =>
          /\ \A i \in DOMAIN df : df[i].status = Num(1)
          /\ \A i \in DOMAIN dx : dx[i].status = Num(1)
    /\ nb = "survival" =>
          \A c \in calls :
              (c.fn = "SurvfuncRight" /\ c.entry = NoEntry) =>
                  \A i \in DOMAIN c.status : c.status[i] = 1

C15_Witness ==
    /\ nb = "survival"
    /\ pc = "N_Read"
    /\ Len(fs.schich) = 2
    /\ Len(df) = 1
    /\ Len(dx) = 1
    /\ \E c \in calls : c.fn = "SurvfuncRight" /\ c.entry = NoEntry /\ Len(c.time) = 1
    /\ \E c \in calls : c.fn = "SurvfuncRight" /\ c.entry = NoEntry /\ Len(c.time) = 0

\* ===================================================== claims C16, C17, C18
\* dx as the dx cell made it: the rows of df with the seven values present.
FullDx == SelectSeq(Project(df, DxCols), CompleteRow)

Subjects(rows) == {rows[i].idind : i \in DOMAIN rows}

Drawn(r) == \E k \in DOMAIN idx_use : Num(idx_use[k]) = r.idind

\* C16: the subsampling draws exactly SampleSize pairwise distinct subject
\* ids, each a subject of dx; afterwards dx holds exactly the rows of the
\* previous dx whose subject was drawn, all of them, and nothing else, so
\* that it has exactly SampleSize subjects.
C16_SubsampleBySubject ==
    (nb = "rlms" /\ AfterSubsampling) =>
        /\ Len(idx_use) = SampleSize
        /\ \A j, k \in DOMAIN idx_use : j # k => idx_use[j] # idx_use[k]
        /\ \A k \in DOMAIN idx_use : Num(idx_use[k]) \in Subjects(FullDx)
        /\ dx = SelectSeq(FullDx, Drawn)
        /\ Cardinality(Subjects(dx)) = SampleSize

C16_Witness ==
    /\ nb = "rlms"
    /\ pc = "R_Mixed1"
    /\ Cardinality(Subjects(FullDx)) = SampleSize + 1
    /\ Len(dx) = SampleSize
    /\ \E i \in DOMAIN FullDx : ~Drawn(FullDx[i])

\* C17: with fewer than SampleSize subjects in dx the subsampling cell ends
\* in an error and leaves dx as it was; a run gets past the cell only with
\* SampleSize distinct ids drawn.
C17_TooFewSubjectsIsAnError ==
    nb = "rlms" =>
        /\ (AfterSubsampling \/ pc = "ValueError") =>
              (pc = "ValueError" <=> Cardinality(Subjects(FullDx)) < SampleSize)
        /\ pc = "ValueError" => (dx = FullDx /\ idx_use = <<>>)
        /\ AfterSubsampling =>
              Cardinality({idx_use[k] : k \in DOMAIN idx_use}) = SampleSize

C17_Witness ==
    /\ nb = "rlms"
    /\ pc = "ValueError"
    /\ Len(dx) = 2
    /\ Cardinality(Subjects(dx)) = SampleSize - 1
    /\ Len(fits) = 1

\* C18: model0 is fitted first, on the full dx, before any id is drawn;
\* model1 to model4 are fitted in that order after the subsampling, each on
\* the same subsampled dx, which stays as the subsampling left it.
C18_FitOrder ==
    nb = "rlms" =>
        /\ \A k \in DOMAIN fits :
              fits[k].model = <<"model0", "model1", "model2", "model3", "model4">>[k]
        /\ fits # <<>> => fits[1].data = FullDx
        /\ Len(fits) >= 2 =>
              /\ AfterSubsampling
              /\ dx = SelectSeq(FullDx, Drawn)
              /\ \A k \in 2..Len(fits) : fits[k].data = dx
        /\ idx_use # <<>> => fits # <<>>
        /\ pc = "done" => Len(fits) = 5

C18_Witness ==
    /\ nb = "rlms"
    /\ pc = "done"
    /\ Len(fits) = 5
    /\ Len(fits[1].data) > Len(fits[2].data)
    /\ fits[5].data = fits[2].data
    /\ fits[5].data # <<>>

\* ===================================================== claim C19
Derived == nb = "rlms" /\ (pc = "R_Dx" \/ BeforeSubsampling \/ AfterSubsampling)

\* The rows of df that have a value in column c, and the sum of the values.
Present(c) == {i \in DOMAIN df : df[i][c] # NaN}

RECURSIVE Total(_, _)
Total(c, S) ==
    IF S = {} THEN 0
    ELSE LET i == CHOOSE j \in S : TRUE IN Val(df[i][c]) + Total(c, S \ {i})

\* m is the mean of column c over the rows of df that have a value.
IsMeanOf(m, c) ==
    IF Present(c) = {} THEN m = NaN
    ELSE /\ m # NaN
         /\ Val(m)[2] > 0
         /\ Val(m)[1] * Cardinality(Present(c)) = Val(m)[2] * Total(c, Present(c))

\* y is x - m, for a number x and a mean m that is a fraction.
IsCentered(y, x, m) ==
    /\ y # NaN
    /\ Val(y)[2] > 0
    /\ Val(y)[1] * Val(m)[2] = (Val(x) * Val(m)[2] - Val(m)[1]) * Val(y)[2]

\* C19: in every row of df, female is 1 when h5 is "female" and 0
\* otherwise, age is year - h6, year_cen is year - year_mean and age_cen
\* is age - age_mean, where the two means are taken over the rows of the
\* whole df that have a value; a row without year or without h6 has
\* neither age nor age_cen.
C19_DerivedVariables ==
    Derived =>
        /\ IsMeanOf(year_mean, "year")
        /\ IsMeanOf(age_mean, "age")
        /\ \A i \in DOMAIN df :
              LET r == df[i] IN
              /\ r.female = (IF r.h5 = <<"female">> THEN Num(1) ELSE Num(0))
              /\ IF r.year = NaN \/ r.h6 = NaN
                 THEN r.age = NaN /\ r.age_cen = NaN
                 ELSE /\ r.age = Num(Val(r.year) - Val(r.h6))
                      /\ IsCentered(r.age_cen, r.age, age_mean)
              /\ IF r.year = NaN THEN r.year_cen = NaN
                 ELSE IsCentered(r.year_cen, r.year, year_mean)

C19_Witness ==
    /\ Derived
    /\ \E i, j \in DOMAIN df :
          /\ df[i].year = NaN
          /\ df[i].age_cen = NaN
          /\ df[i].female = Num(1)
          /\ df[j].h5 = <<"male">>
          /\ df[j].female = Num(0)
          /\ df[j].year_cen = Num(<<0, 1>>)
          /\ df[j].age_cen # NaN
    /\ year_mean = Num(<<2000, 1>>)

\* ===================================================== claim C20
NhanesDerived ==
    /\ nb = "survival"
    /\ pc \in {"N_Filter", "N_Hazard", "N_PHReg1", "N_PHReg2", "N_PHReg3", "done"}
NhanesFiltered ==
    /\ nb = "survival"
    /\ pc \in {"N_Hazard", "N_PHReg1", "N_PHReg2", "N_PHReg3", "done"}

PositiveFollowUp(r) == r.permth_int # NaN /\ Val(r.permth_int) > 0

\* C20: in every row of the NHANES df, female is 1 exactly when sex is 2
\* and rural is 1 exactly when urbanrural is 2 (0 otherwise), age_int is
\* 12 * age and end is age_int + permth_int; the filter end > age_int
\* keeps exactly the rows with permth_int > 0, and every row it keeps has
\* end - age_int = permth_int > 0.
C20_NhanesDerivedAndFilter ==
    /\ [](NhanesDerived =>
            \A i \in DOMAIN df :
                LET r == df[i] IN
                /\ r.female = (IF r.sex = Num(2) THEN Num(1) ELSE Num(0))
                /\ r.rural = (IF r.urbanrural = Num(2) THEN Num(1) ELSE Num(0))
                /\ r.age_int = Num(12 * Val(r.age))
                /\ r.end = Num(Val(r.age_int) + Val(r.permth_int))
                /\ NhanesFiltered =>
                      /\ Val(r.end) - Val(r.age_int) = Val(r.permth_int)
                      /\ Val(r.permth_int) > 0)
    /\ [][(nb = "survival" /\ pc = "N_Filter") => df' = SelectSeq(df, PositiveFollowUp)]_vars

C20_Witness ==
    /\ nb = "survival"
    /\ pc = "N_Hazard"
    /\ Len(fs.nhanes) = 2
    /\ Len(df) = 1
    /\ \A i \in DOMAIN fs.nhanes : \A c \in DOMAIN fs.nhanes[i] : fs.nhanes[i][c] # NaN
    /\ \E i \in DOMAIN fs.nhanes : fs.nhanes[i].permth_int = Num(0)
    /\ df[1].age_int = Num(12)
    /\ Val(df[1].end) > Val(df[1].age_int)

\* ===================================================== claim C21
\* The columns of the merged NHANES file.
NhanesCols == {"age", "permth_int", "sex", "mortstat", "poverty", "urbanrural"}

\* An input row with every value present and a poverty value that is not
\* the sentinel.
KeptByPreparation(r) ==
    /\ \A c \in NhanesCols : r[c] # NaN
    /\ r.poverty # Num(888888)

\* C21: after the NHANES preparation cell no row of df has poverty 888888
\* and no row has a missing value in any column; right after the cell, df
\* holds, in order and with their input values, exactly the input rows
\* that had every value present and a poverty other than 888888, so every
\* input row with poverty 888888 is gone.
C21_PovertySentinelRemoved ==
    /\ NhanesDerived =>
          \A i \in DOMAIN df :
              /\ df[i].poverty # Num(888888)
              /\ \A c \in DOMAIN df[i] : df[i][c] # NaN
    /\ (nb = "survival" /\ pc = "N_Filter") =>
          Project(df, NhanesCols) = SelectSeq(fs.nhanes, KeptByPreparation)

C21_Witness ==
    /\ nb = "survival"
    /\ pc = "N_Filter"
    /\ Len(fs.nhanes) = 2
    /\ fs.nhanes[1].poverty = Num(888888)
    /\ KeptByPreparation(fs.nhanes[2])
    /\ Len(df) = 1
    /\ df[1].poverty = fs.nhanes[2].poverty

\* ===================================================== claim C22
\* p <= q for fractions with positive denominators.
RatLeq(p, q) == p[1] * q[2] <= q[1] * p[2]

\* C22: for every input the estimator accepts, with or without entry
\* times, each estimated survival probability lies in [0, 1], and of two
\* reported times the later one never has the larger probability.
C22_SurvivalMonotoneInUnitInterval ==
    ret.outcome = "ok" =>
        LET tm == ret.sf.surv_times
            pr == ret.sf.surv_prob
        IN /\ Len(pr) = Len(tm)
           /\ \A k \in DOMAIN pr :
                 /\ pr[k][2] > 0
                 /\ 0 <= pr[k][1]
                 /\ pr[k][1] <= pr[k][2]
           /\ \A j, k \in DOMAIN pr :
                 tm[j] < tm[k] => RatLeq(pr[k], pr[j])

C22_Witness ==
    /\ ret.outcome = "ok"
    /\ args.entry # NoEntry
    /\ \E i \in Idx(args) : args.entry[i] > 0
    /\ \E i \in Idx(args) : args.status[i] = 0
    /\ Len(ret.sf.surv_prob) = 3
    /\ ret.sf.surv_prob[1] = <<1, 1>>
    /\ ret.sf.surv_prob[2] = <<1, 2>>
    /\ ret.sf.surv_prob[3] = <<0, 1>>

====
